---- MODULE Spec2Model ----
(***************************************************************************)
(* Week lifecycle of the pick'em league: Game Sync, Week Sync, Grade,       *)
(* Advance and Pick Submission over the shared relational store.            *)
(*                                                                          *)
(* One league and one season are modelled, so the league_id / season_year   *)
(* columns of every key are left implicit.  Times are instants in           *)
(* milliseconds.  The provider is stateless: every fetch draws its answer   *)
(* anew.                                                                    *)
(***************************************************************************)
EXTENDS Integers, Sequences, FiniteSets, TLC

VARIABLES
    current_week,   \* leagues.current_week
    games,          \* games table: game_id -> row or NoRow
    weeks,          \* weeks table: week_number -> config or NoCfg
    picks,          \* picks table: set of rows, key (week_number, user_id, slot)
    byes,           \* byes table: set of rows (week_number, user_id)
    pick_results,   \* pick_results table: set of rows, key (week_number, user_id, slot)
    adv,            \* in-flight Advance invocations: proc -> local variables
    now,            \* the clock, Date.now()
    ui,             \* picks-page sessions: session -> component state
    other_games,    \* games rows of the season that belong to other leagues
    wk,             \* the week page of the viewer: component state and rendered rows
    out             \* the response the last step sent, NoOut if it sent none

vars == <<current_week, games, weeks, picks, byes, pick_results, adv, now, ui,
          other_games, wk, out>>

(***************************************************************************)
(* Bounds and program constants                                            *)
(***************************************************************************)
NumWeeks == 3                       \* weeks of the season that are modelled
LastWeek == 18                      \* "Already week 18"
SingleFrom == 17                    \* picks_required = 1 from this week on
ByeLastWeek == 16                   \* league.current_week > 16: no bye
FirstWeek == LastWeek - NumWeeks + 1
Weeks == FirstWeek..LastWeek
\* the last but one week that allows a bye: two weeks with a bye follow
TwoByesWeek == ByeLastWeek - 1
\* the weeks the store has rows for; Advance syncs next_week = current_week + 1
\* whatever it is
SyncWeeks == (IF FirstWeek < TwoByesWeek THEN FirstWeek ELSE TwoByesWeek)..(LastWeek + 1)

Null == "null"
DayMs == 86400000                   \* 24 * 60 * 60 * 1000
NoScore == -1                       \* a null home_score / away_score
NoRow == [game_id |-> <<>>]
NoCfg == [picks_required |-> 0]

\* NextResponse.json(...): the route, the invocation, the HTTP status, the
\* body's advanced and reason / error, and the provider fetches the request made
Response(route, proc, status, advanced, reason, fetches) ==
    [route |-> route, proc |-> proc, status |-> status, advanced |-> advanced,
     reason |-> reason, fetches |-> fetches]
NoOut == [route |-> "none"]
\* responses are recorded in the behaviours that start with out = NoOut
Unobserved == [route |-> "unobserved"]
Sent(r) == IF out = Unobserved THEN Unobserved ELSE r

Teams == {"KC", "SF", "DAL", "BUF"}
Users == {"u1"}
Procs == {"a1", "a2"}
Sessions == {"s1", "s2"}            \* browser sessions of the user
UserOf(s) == "u1"

(***************************************************************************)
(* The provider's schedule.  An event id names one matchup of one week;    *)
(* its teams are fixed, its status, scores and kickoff are what the        *)
(* provider reports at the time of the fetch.                              *)
(***************************************************************************)
EventIds(w) == {<<w, 1>>, <<w, 2>>}
\* ids of the rows grade-week's stubResults name: "game1", "game2"
StubIds == {<<0, 1>>, <<0, 2>>}
GameIds == StubIds \cup UNION {EventIds(w) : w \in SyncWeeks}

HomeOf(id) == IF id[2] = 1 THEN "KC" ELSE "DAL"
AwayOf(id) == IF id[2] = 1 THEN "SF" ELSE "BUF"

\* One event of the scoreboard, as syncGamesInline reads it
Event(id, home, state, completed, hs, as, date) ==
    [id |-> id, home_abbr |-> home, away_abbr |-> AwayOf(id), state |-> state,
     completed |-> completed, home_score |-> hs, away_score |-> as, date |-> date]

mapStatus(state) ==
    IF state = "in" THEN "inprogress"
    ELSE IF state = "post" THEN "final"
    ELSE "scheduled"

\* (mutant) a tie goes to the home team
WinnerOf_TieHome(ev) ==
    IF ev.completed /\ ev.home_score # NoScore /\ ev.away_score # NoScore
    THEN IF ev.home_score >= ev.away_score THEN ev.home_abbr ELSE ev.away_abbr
    ELSE Null

\* winner_abbr of an event
WinnerOf(ev) ==
    IF ev.completed /\ ev.home_score # NoScore /\ ev.away_score # NoScore
    THEN IF ev.home_score > ev.away_score THEN ev.home_abbr
         ELSE IF ev.away_score > ev.home_score THEN ev.away_abbr
         ELSE Null
    ELSE Null

\* The row pushed for one event
RowOf(ev, week_number) ==
    [game_id |-> ev.id, week_number |-> week_number,
     home_abbr |-> ev.home_abbr, away_abbr |-> ev.away_abbr,
     kickoff_time |-> ev.date, status |-> mapStatus(ev.state),
     home_score |-> ev.home_score, away_score |-> ev.away_score,
     winner_abbr |-> WinnerOf(ev)]

\* rows of a scoreboard: events without a resolvable team are skipped
RowsOf(events, week_number) ==
    {RowOf(ev, week_number) : ev \in {e \in events : e.home_abbr # Null /\ e.away_abbr # Null}}

\* games.upsert(rows, onConflict: league_id, season_year, game_id)
UpsertGames(g, rows) ==
    [id \in GameIds |->
        IF \E r \in rows : r.game_id = id
        THEN CHOOSE r \in rows : r.game_id = id
        ELSE g[id]]

\* games.select(...).eq(week_number, w)
GamesOfWeek(g, w) == {g[id] : id \in {i \in GameIds : g[i] # NoRow /\ g[i].week_number = w}}

Min(S) == CHOOSE x \in S : \A y \in S : x <= y

\* (mutant) the order is descending: the latest kickoff
EarliestKickoff_Latest(rows) ==
    CHOOSE x \in {r.kickoff_time : r \in rows} : \A r \in rows : x >= r.kickoff_time

\* .order(kickoff_time, ascending).limit(1)
EarliestKickoff(rows) == Min({r.kickoff_time : r \in rows})

\* (mutant) one pick from week 18 on
picksRequired_OffByOne(week_number) == IF week_number > SingleFrom THEN 1 ELSE 2

picksRequired(week_number) == IF week_number >= SingleFrom THEN 1 ELSE 2

WeekCfg(week_number, lockIso) ==
    [picks_required |-> picksRequired(week_number), lock_time |-> lockIso,
     reveal_time |-> lockIso]

(***************************************************************************)
(* What the provider may answer.  A scoreboard is a failed fetch or a set  *)
(* of events of the asked week, one per id at most.                        *)
(***************************************************************************)
KickoffOf(id) == 1000 * id[2]

\* not started / final with a home win / an event without a home team
BasicEvents(id) ==
    {Event(id, HomeOf(id), "pre", FALSE, NoScore, NoScore, KickoffOf(id)),
     Event(id, HomeOf(id), "post", TRUE, 1, 0, KickoffOf(id)),
     Event(id, Null, "pre", FALSE, NoScore, NoScore, KickoffOf(id))}

\* kinds[i]: the events the provider may report for id i
EventSets(kinds) ==
    UNION {{{f[i] : i \in S} : f \in {h \in [S -> UNION {kinds[i] : i \in S}] :
                                        \A i \in S : h[i] \in kinds[i]}}
           : S \in SUBSET DOMAIN kinds}

\* fetchEspnScoreboard: { ok: false } on a non-2xx answer, else { ok: true, events }
Scoreboards(kinds) ==
    {[ok |-> FALSE, events |-> {}]}
    \cup {[ok |-> TRUE, events |-> E] : E \in EventSets(kinds)}

(***************************************************************************)
(* Game Sync, the standalone route (league-scoped).  week_number is the    *)
(* body's override or the league's current week.  A failed fetch or a      *)
(* store error throws (500) and writes nothing.                            *)
(***************************************************************************)
GameSync(week_number, board) ==
    /\ games' = IF board.ok /\ RowsOf(board.events, week_number) # {}
                THEN UpsertGames(games, RowsOf(board.events, week_number))
                ELSE games
    /\ out' = Sent(IF board.ok
              THEN Response("sync-games", Null, 200, FALSE, Null, 1)
              ELSE Response("sync-games", Null, 500, FALSE, "ESPN fetch failed", 1))
    /\ UNCHANGED <<current_week, weeks, picks, byes, pick_results, adv, now, ui, other_games, wk>>

(***************************************************************************)
(* Week Sync, the standalone route.                                        *)
(***************************************************************************)
\* lockIso: the earliest kickoff, or now + 24h when there is no game
LockIso(rows, t) == IF rows # {} THEN EarliestKickoff(rows) ELSE t + DayMs

\* (mutant) the fallback lock is always allowed
Refuses_Never(rows, allow_fallback_lock) == FALSE

\* !games?.length && !allow_fallback_lock
Refuses(rows, allow_fallback_lock) == rows = {} /\ ~allow_fallback_lock

WeekSync(week_number, allow_fallback_lock) ==
    /\ weeks' = IF Refuses(GamesOfWeek(games, week_number), allow_fallback_lock)
                THEN weeks     \* 409, refusing to create week config
                ELSE [weeks EXCEPT ![week_number] =
                        WeekCfg(week_number, LockIso(GamesOfWeek(games, week_number), now))]
    /\ out' = Sent(IF Refuses(GamesOfWeek(games, week_number), allow_fallback_lock)
              THEN Response("sync-week", Null, 409, FALSE,
                            "No games found for this league/week", 0)
              ELSE Response("sync-week", Null, 200, FALSE, Null, 0))
    /\ UNCHANGED <<current_week, games, picks, byes, pick_results, adv, now, ui, other_games, wk>>

(***************************************************************************)
(* Grade.  The route grades the league's current week.  It first writes    *)
(* its stubResults into the games table, then loads the week's picks and   *)
(* games and upserts one pick_results row per pick.                        *)
(***************************************************************************)
stubResults ==
    {[game_id |-> <<0, 1>>, status |-> "final", home_score |-> 24, away_score |-> 20],
     [game_id |-> <<0, 2>>, status |-> "final", home_score |-> 17, away_score |-> 28]}

\* gameUpdates: winner_abbr needs the teams, known for the games of the graded week only
gameUpdate(g, week_number, r) ==
    [game_id |-> r.game_id, status |-> r.status,
     home_score |-> r.home_score, away_score |-> r.away_score,
     winner_abbr |->
        IF g[r.game_id] # NoRow /\ g[r.game_id].week_number = week_number
           /\ r.status = "final"
        THEN IF r.home_score = r.away_score THEN Null
             ELSE IF r.home_score > r.away_score THEN g[r.game_id].home_abbr
             ELSE g[r.game_id].away_abbr
        ELSE Null]

\* games.update(u).eq(game_id, u.game_id), for the updates of `ids`
UpdateGames(g, week_number, ids) ==
    [id \in GameIds |->
        IF id \in ids /\ g[id] # NoRow
        THEN LET u == gameUpdate(g, week_number,
                                 CHOOSE r \in stubResults : r.game_id = id)
             IN [g[id] EXCEPT !.status = u.status, !.home_score = u.home_score,
                              !.away_score = u.away_score, !.winner_abbr = u.winner_abbr]
        ELSE g[id]]

PicksOfWeek(pk, w) == {p \in pk : p.week_number = w}

\* (mutant) allFinal as Advance computes it: at least one game
GradeAllFinal_NeedsGame(rows) == rows # {} /\ \A r \in rows : r.status = "final"

\* let allFinal = true; for (g of finalGames) if (g.status !== "final") allFinal = false
GradeAllFinal(rows) == \A r \in rows : r.status = "final"

\* winners: the non-null winner_abbr of the week's games
Winners(rows) == {r.winner_abbr : r \in {x \in rows : x.winner_abbr # Null}}

ResultOf(p, rows) ==
    IF GradeAllFinal(rows)
    THEN IF p.team_abbr \in Winners(rows) THEN "win" ELSE "loss"
    ELSE "pending"

\* (mutant) the grading pass reads the table as it was before its updates
GamesGraded_Stale(g, week_number) == g

\* the games the grading pass reads: the table after the route's own updates
GamesGraded(g, week_number) == UpdateGames(g, week_number, StubIds)

\* results = allPicks.map(...)
GradeResults(g, pk, week_number) ==
    {[week_number |-> week_number, user_id |-> p.user_id, slot |-> p.slot,
      team_abbr |-> p.team_abbr,
      result |-> ResultOf(p, GamesOfWeek(GamesGraded(g, week_number), week_number))]
     : p \in PicksOfWeek(pk, week_number)}

SameKey(a, b) ==
    a.week_number = b.week_number /\ a.user_id = b.user_id /\ a.slot = b.slot

\* pick_results.upsert(results, onConflict: league, season, week, user, slot)
UpsertResults(pr, results) ==
    {r \in pr : ~\E n \in results : SameKey(r, n)} \cup results

\* if (results.length > 0) upsert: the table after the pass
ResultsGraded(pr, g, pk, week_number) ==
    IF GradeResults(g, pk, week_number) # {}
    THEN UpsertResults(pr, GradeResults(g, pk, week_number))
    ELSE pr

\* `done`: the store writes completed before a store error ended the pass
\*   0 none, 1 the first game update, 2 both game updates, 3 the whole pass
Grade(done) ==
    /\ games' = IF done = 0 THEN games
                ELSE IF done = 1 THEN UpdateGames(games, current_week, {<<0, 1>>})
                ELSE UpdateGames(games, current_week, StubIds)
    /\ pick_results' = IF done = 3
                       THEN ResultsGraded(pick_results, games, picks, current_week)
                       ELSE pick_results
    /\ out' = Sent(IF done = 3
              THEN Response("grade-week", Null, 200, FALSE, Null, 0)
              ELSE Response("grade-week", Null, 500, FALSE, "store error", 0))
    /\ UNCHANGED <<current_week, weeks, picks, byes, adv, now, ui, other_games, wk>>

(***************************************************************************)
(* Advance, one step per store call.  A provider fetch touches no shared   *)
(* state and is taken together with the store call around it.              *)
(***************************************************************************)
AdvIdle ==
    [pc |-> "idle", week |-> 0, count |-> 0, statuses |-> {}, events |-> 0,
     upserted |-> 0, lockIso |-> 0, sw_ok |-> FALSE, writes |-> <<>>, fetches |-> 0]

\* { ok: true, advanced: false, reason }
Stalled(p, reason, fetches) == Response("advance-week", p, 200, FALSE, reason, fetches)

\* (mutant) the guard lets week 18 through
AlreadyLast_OffByOne(week) == week > LastWeek

\* (mutant) the guard stops the league one week early
AlreadyLast_Early(week) == week >= LastWeek - 1

\* lg.current_week >= 18: "Already week 18"
AlreadyLast(week) == week >= LastWeek

\* (mutant) a week without Game rows counts as all final
AdvAllFinal_EmptyOk(rows) == \A r \in rows : r.status = "final"

\* count > 0 && curGames.every(status === "final")
AdvAllFinal(rows) == rows # {} /\ \A r \in rows : r.status = "final"

\* getLeagueById, then the week-18 guard
AdvReadLeague(p) ==
    /\ adv[p].pc = "idle"
    /\ adv' = [adv EXCEPT ![p] =
                IF AlreadyLast(current_week) THEN AdvIdle
                ELSE [AdvIdle EXCEPT !.pc = "league", !.week = current_week]]
    /\ out' = Sent(IF AlreadyLast(current_week) THEN Stalled(p, "Already week 18", 0) ELSE NoOut)
    /\ UNCHANGED <<current_week, games, weeks, picks, byes, pick_results, now, ui, other_games, wk>>

\* the reason sent when the provider has no event for next_week
NoProviderGames == "Next week has no games at provider (ESPN)"

\* (mutant) the provider check does not look at the events
ProviderHasGames_OkOnly(board) == board.ok

\* the provider check passes: the fetch succeeded and has at least one event
ProviderHasGames(board) == board.ok /\ board.events # {}

\* load the current week's games, check allFinal, then ask the provider for next_week
AdvReadGames(p, board) ==
    /\ adv[p].pc = "league"
    /\ LET rows == GamesOfWeek(games, adv[p].week)
       IN /\ adv' = [adv EXCEPT ![p] =
                    IF AdvAllFinal(rows) /\ ProviderHasGames(board)
                    THEN [@ EXCEPT !.pc = "checked", !.count = Cardinality(rows),
                                   !.statuses = {r.status : r \in rows},
                                   !.events = Cardinality(board.events),
                                   !.fetches = 1]
                    ELSE AdvIdle]
          /\ out' = Sent(IF ~AdvAllFinal(rows)
                    THEN Stalled(p, IF rows = {} THEN "No games found for current week"
                                    ELSE "Not all games final", 0)
                    ELSE IF ~board.ok
                    THEN Stalled(p, "Provider check failed; will retry later", 1)
                    ELSE IF ~ProviderHasGames(board)
                    THEN Stalled(p, NoProviderGames, 1)
                    ELSE NoOut)
    /\ UNCHANGED <<current_week, games, weeks, picks, byes, pick_results, now, ui, other_games, wk>>

\* (mutant) an empty scoreboard counts as a successful sync
SyncGamesOk_NoRowCheck(board, week_number) == board.ok

\* syncGamesInline's outcome: ok only with at least one row
SyncGamesOk(board, week_number) == board.ok /\ RowsOf(board.events, week_number) # {}

\* 1) syncGamesInline(next_week): a second fetch, then the upsert
AdvSyncGames(p, board) ==
    /\ adv[p].pc = "checked"
    /\ LET next_week == adv[p].week + 1
           rows == RowsOf(board.events, next_week)
       IN IF SyncGamesOk(board, next_week)
          THEN /\ games' = UpsertGames(games, rows)
               /\ adv' = [adv EXCEPT ![p].pc = "games", ![p].upserted = Cardinality(rows),
                                     ![p].writes = Append(@, "games"),
                                     ![p].fetches = @ + 1]
               /\ out' = Sent(NoOut)
          ELSE /\ games' = games
               /\ adv' = [adv EXCEPT ![p] = AdvIdle]
               /\ out' = Sent(Stalled(p, IF board.ok THEN "ESPN returned 0 events; will retry later"
                                    ELSE "ESPN fetch failed; will retry later",
                                 adv[p].fetches + 1))
    /\ UNCHANGED <<current_week, weeks, picks, byes, pick_results, now, ui, other_games, wk>>

\* 2) syncWeekInline(next_week): read the earliest kickoff ...
AdvReadKickoff(p) ==
    /\ adv[p].pc = "games"
    /\ LET rows == GamesOfWeek(games, adv[p].week + 1)
       IN /\ adv' = [adv EXCEPT ![p] =
                    IF rows = {} THEN AdvIdle
                    ELSE [@ EXCEPT !.pc = "kickoff", !.lockIso = EarliestKickoff(rows)]]
          /\ out' = Sent(IF rows = {}
                    THEN Stalled(p, "No games found in DB for league/week; will retry later",
                                 adv[p].fetches)
                    ELSE NoOut)
    /\ UNCHANGED <<current_week, games, weeks, picks, byes, pick_results, now, ui, other_games, wk>>

\* (mutant) the config is written for the week being left
AdvUpsertWeek_WrongWeek(p) ==
    /\ adv[p].pc = "kickoff"
    /\ weeks' = [weeks EXCEPT ![adv[p].week] = WeekCfg(adv[p].week, adv[p].lockIso)]
    /\ adv' = [adv EXCEPT ![p].pc = "week", ![p].sw_ok = TRUE,
                          ![p].writes = Append(@, "weeks")]
    /\ UNCHANGED <<current_week, games, picks, byes, pick_results, now, ui, other_games, wk>>
    /\ out' = Sent(NoOut)

\* ... and upsert the week config
AdvUpsertWeek(p) ==
    /\ adv[p].pc = "kickoff"
    /\ weeks' = [weeks EXCEPT ![adv[p].week + 1] = WeekCfg(adv[p].week + 1, adv[p].lockIso)]
    /\ adv' = [adv EXCEPT ![p].pc = "week", ![p].sw_ok = TRUE,
                          ![p].writes = Append(@, "weeks")]
    /\ UNCHANGED <<current_week, games, picks, byes, pick_results, now, ui, other_games, wk>>
    /\ out' = Sent(NoOut)

\* (mutant) the update increments the stored value
AdvUpdateLeague_Increment(p) ==
    /\ adv[p].pc = "week"
    /\ current_week' = current_week + 1
    /\ adv' = [adv EXCEPT ![p] = AdvIdle]
    /\ out' = Sent(Response("advance-week", p, 200, TRUE, Null, adv[p].fetches))
    /\ UNCHANGED <<games, weeks, picks, byes, pick_results, now, ui, other_games, wk>>

\* 3) leagues.update({ current_week: next_week }).eq(id, league_id)
AdvUpdateLeague(p) ==
    /\ adv[p].pc = "week"
    /\ current_week' = adv[p].week + 1
    /\ adv' = [adv EXCEPT ![p] = AdvIdle]
    /\ out' = Sent(Response("advance-week", p, 200, TRUE, Null, adv[p].fetches))
    /\ UNCHANGED <<games, weeks, picks, byes, pick_results, now, ui, other_games, wk>>

\* a store call of the invocation returns an error: the route throws (500).
\* By pc: the read of the current week's games, the games upsert (after
\* syncGamesInline's fetch), the kickoff read, the weeks upsert, the leagues update
AdvStoreError(p) ==
    /\ adv[p].pc # "idle"
    /\ adv' = [adv EXCEPT ![p] = AdvIdle]
    /\ out' = Sent(Response("advance-week", p, 500, FALSE, "store error",
                             IF adv[p].pc = "checked" THEN adv[p].fetches + 1
                             ELSE adv[p].fetches))
    /\ UNCHANGED <<current_week, games, weeks, picks, byes, pick_results, now, ui, other_games, wk>>

\* fetch() itself rejects (network failure) in the provider check or in
\* syncGamesInline: fetchEspnScoreboard does not catch it, the route's catch does
AdvFetchThrows(p) ==
    /\ \/ adv[p].pc = "league" /\ AdvAllFinal(GamesOfWeek(games, adv[p].week))
       \/ adv[p].pc = "checked"
    /\ adv' = [adv EXCEPT ![p] = AdvIdle]
    /\ out' = Sent(Response("advance-week", p, 500, FALSE, "fetch failed", adv[p].fetches + 1))
    /\ UNCHANGED <<current_week, games, weeks, picks, byes, pick_results, now, ui, other_games, wk>>

(***************************************************************************)
(* The trigger routes as requests: what each does with the headers.        *)
(***************************************************************************)
CronSecret == "secret"              \* process.env.CRON_SECRET

\* x-vercel-cron is "1" or not; x-cron-secret is absent, wrong or right
Requests == [cron : BOOLEAN, secret : {Null, "wrong", CronSecret}]

\* mustBeCron passes (does not throw)
mustBeCron(req) == req.cron \/ req.secret = CronSecret

\* catch: status 401 for the message "Unauthorized"
Unauthorized(route) ==
    /\ out' = Sent(Response(route, Null, 401, FALSE, "Unauthorized", 0))
    /\ UNCHANGED <<current_week, games, weeks, picks, byes, pick_results, adv, now, ui,
                   other_games, wk>>

GameSyncRoute(req, week_number, board) ==
    IF mustBeCron(req) THEN GameSync(week_number, board) ELSE Unauthorized("sync-games")

WeekSyncRoute(req, week_number, allow_fallback_lock) ==
    IF mustBeCron(req) THEN WeekSync(week_number, allow_fallback_lock)
    ELSE Unauthorized("sync-week")

\* grade-week declares mustBeCron twice and calls neither
GradeRoute(req, done) == Grade(done)

AdvanceRoute(req, p) ==
    IF mustBeCron(req) THEN AdvReadLeague(p)
    ELSE adv[p].pc = "idle" /\ Unauthorized("advance-week")

(***************************************************************************)
(* Pick Submission: the picks page.  A session holds the component state;  *)
(* save() runs one step per store call, on the state the page had when     *)
(* the button was clicked.                                                 *)
(***************************************************************************)
TickMs == 1000                      \* window.setInterval(tick, 1000)
TimeStep == TickMs \div 2           \* the clock moves in steps of half an interval
MaxClockSteps == 4                  \* ... and stops after this many steps

NoMs == <<>>                        \* msToLock === null
Empty == ""                         \* no team selected

UiClosed ==
    [pc |-> "closed", week |-> 0, picks_required |-> 0, lock_time |-> 0,
     teamsPlaying |-> {}, p1 |-> Empty, p2 |-> Empty, usedTeams |-> {},
     wantsBye |-> FALSE, byeExistsThisWeek |-> FALSE, byeUsedThisSeason |-> FALSE,
     msToLock |-> NoMs, nextTick |-> 0, err |-> Null, msg |-> Null]

\* const locked = msToLock !== null ? msToLock <= 0 : false
locked(u) == IF u.msToLock # NoMs THEN u.msToLock[1] <= 0 ELSE FALSE

PickOf(pk, w, user, slot) ==
    IF \E p \in pk : p.week_number = w /\ p.user_id = user /\ p.slot = slot
    THEN (CHOOSE p \in pk : p.week_number = w /\ p.user_id = user /\ p.slot = slot).team_abbr
    ELSE Empty

\* picks.select(team_abbr, week_number).eq(user_id): the teams used this season
UsedTeams(pk, user) == {p.team_abbr : p \in {x \in pk : x.user_id = user}}

ByeThisWeek(b, w, user) == \E r \in b : r.week_number = w /\ r.user_id = user
ByeSeason(b, user) == \E r \in b : r.user_id = user

\* the page's games query has season_year and week_number only, no league_id
OtherGamesOfWeek(w) == {r \in other_games : r.week_number = w}

TeamsPlaying(rows) == {r.home_abbr : r \in rows} \cup {r.away_abbr : r \in rows}

\* load(): league, week config, games, picks, used teams, bye state; the
\* lock effect then ticks once and starts the interval
Load(s) ==
    /\ ui[s].pc = "closed"
    /\ ui' = [ui EXCEPT ![s] =
         IF weeks[current_week] = NoCfg
         THEN [UiClosed EXCEPT !.err = "Week config not found"]
         ELSE [pc |-> "ready", week |-> current_week,
               picks_required |-> weeks[current_week].picks_required,
               lock_time |-> weeks[current_week].lock_time,
               teamsPlaying |-> TeamsPlaying(GamesOfWeek(games, current_week))
                                \cup TeamsPlaying(OtherGamesOfWeek(current_week)),
               p1 |-> PickOf(picks, current_week, UserOf(s), 1),
               p2 |-> PickOf(picks, current_week, UserOf(s), 2),
               usedTeams |-> UsedTeams(picks, UserOf(s)),
               wantsBye |-> ByeThisWeek(byes, current_week, UserOf(s)),
               byeExistsThisWeek |-> ByeThisWeek(byes, current_week, UserOf(s)),
               byeUsedThisSeason |-> ByeSeason(byes, UserOf(s)),
               msToLock |-> <<weeks[current_week].lock_time - now>>,
               nextTick |-> now + TickMs, err |-> Null, msg |-> Null]]
    /\ UNCHANGED <<current_week, games, weeks, picks, byes, pick_results, adv, now, other_games, wk>>
    /\ out' = Sent(NoOut)

\* tick: setMsToLock(lockAt - Date.now()), every TickMs
Tick(s) ==
    /\ ui[s].pc # "closed"
    /\ now = ui[s].nextTick
    /\ ui' = [ui EXCEPT ![s].msToLock = <<ui[s].lock_time - now>>,
                        ![s].nextTick = now + TickMs]
    /\ UNCHANGED <<current_week, games, weeks, picks, byes, pick_results, adv, now, other_games, wk>>
    /\ out' = Sent(NoOut)

\* time passes; an interval that is due fires first
AdvanceTime ==
    /\ now + TimeStep <= MaxClockSteps * TimeStep
    /\ \A s \in Sessions : ui[s].pc # "closed" => ui[s].nextTick > now
    /\ now' = now + TimeStep
    /\ UNCHANGED <<current_week, games, weeks, picks, byes, pick_results, adv, ui, other_games, wk>>
    /\ out' = Sent(NoOut)

\* optionsFor(slot): teams playing, not used (but the current selection), not the other slot's
optionsFor(u, slot) ==
    {t \in u.teamsPlaying :
        /\ (IF slot = 1 THEN u.p1 ELSE u.p2) = t \/ t \notin u.usedTeams
        /\ t # (IF slot = 1 THEN u.p2 ELSE u.p1)}

\* the select of a slot: disabled={locked || wantsBye}; slot 2 is shown when 2 picks are required
SetPick(s, slot, t) ==
    /\ ui[s].pc = "ready"
    /\ ~locked(ui[s]) /\ ~ui[s].wantsBye
    /\ slot = 2 => ui[s].picks_required = 2
    /\ t \in optionsFor(ui[s], slot) \cup {Empty}
    /\ ui' = IF slot = 1 THEN [ui EXCEPT ![s].p1 = t] ELSE [ui EXCEPT ![s].p2 = t]
    /\ UNCHANGED <<current_week, games, weeks, picks, byes, pick_results, adv, now, other_games, wk>>
    /\ out' = Sent(NoOut)

\* the bye checkbox
ByeDisabled(u) ==
    locked(u) \/ u.week > ByeLastWeek \/ (u.byeUsedThisSeason /\ ~u.byeExistsThisWeek)

SetWantsBye(s, checked) ==
    /\ ui[s].pc = "ready"
    /\ ~ByeDisabled(ui[s])
    /\ ui' = [ui EXCEPT ![s].wantsBye = checked,
                        ![s].p1 = IF checked THEN Empty ELSE @,
                        ![s].p2 = IF checked THEN Empty ELSE @]
    /\ UNCHANGED <<current_week, games, weeks, picks, byes, pick_results, adv, now, other_games, wk>>
    /\ out' = Sent(NoOut)

\* the Save button: disabled={locked || saving}
SaveEnabled(u) == u.pc = "ready" /\ ~locked(u)

InsertBye(b, w, user) == b \cup {[week_number |-> w, user_id |-> user]}
DeleteBye(b, w, user) == {r \in b : ~(r.week_number = w /\ r.user_id = user)}
DeletePicks(pk, w, user) == {p \in pk : ~(p.week_number = w /\ p.user_id = user)}
DeleteSlot2(pk, w, user) ==
    {p \in pk : ~(p.week_number = w /\ p.user_id = user /\ p.slot = 2)}
\* picks.upsert(rows, onConflict: league, season, week, user, slot)
\* (mutant) the rows are inserted next to the stored ones
UpsertPicks_Insert(pk, rows) == pk \cup rows

UpsertPicks(pk, rows) == {p \in pk : ~\E r \in rows : SameKey(p, r)} \cup rows

Failed(u, message) == [u EXCEPT !.pc = "ready", !.err = message, !.msg = Null]

\* bye path, the click and the insert (a duplicate error counts as success)
SaveBye(s, ok) ==
    /\ SaveEnabled(ui[s]) /\ ui[s].wantsBye
    /\ IF ui[s].week > ByeLastWeek
       THEN /\ ui' = [ui EXCEPT ![s] = Failed(@, "Bye is only allowed in weeks 1-16.")]
            /\ byes' = byes
       ELSE IF ok
       THEN /\ byes' = InsertBye(byes, ui[s].week, UserOf(s))
            /\ ui' = [ui EXCEPT ![s].pc = "bye_inserted", ![s].err = Null, ![s].msg = Null]
       ELSE /\ byes' = byes
            /\ ui' = [ui EXCEPT ![s] = Failed(@, "store error")]
    /\ UNCHANGED <<current_week, games, weeks, picks, pick_results, adv, now, other_games, wk>>
    /\ out' = Sent(NoOut)

\* bye path, delete the week's picks
SaveByeDeletePicks(s, ok) ==
    /\ ui[s].pc = "bye_inserted"
    /\ IF ok
       THEN /\ picks' = DeletePicks(picks, ui[s].week, UserOf(s))
            /\ ui' = [ui EXCEPT ![s].pc = "refresh_bye", ![s].byeExistsThisWeek = TRUE,
                                ![s].byeUsedThisSeason = TRUE,
                                ![s].p1 = Empty, ![s].p2 = Empty]
       ELSE /\ picks' = picks
            /\ ui' = [ui EXCEPT ![s] = Failed(@, "store error")]
    /\ UNCHANGED <<current_week, games, weeks, byes, pick_results, adv, now, other_games, wk>>
    /\ out' = Sent(NoOut)

\* picks path, a bye exists: delete it first
SaveDeleteBye(s, ok) ==
    /\ SaveEnabled(ui[s]) /\ ~ui[s].wantsBye /\ ui[s].byeExistsThisWeek
    /\ IF ok
       THEN /\ byes' = DeleteBye(byes, ui[s].week, UserOf(s))
            /\ ui' = [ui EXCEPT ![s].pc = "bye_deleted", ![s].byeExistsThisWeek = FALSE,
                                ![s].err = Null, ![s].msg = Null]
       ELSE /\ byes' = byes
            /\ ui' = [ui EXCEPT ![s] = Failed(@, "store error")]
    /\ UNCHANGED <<current_week, games, weeks, picks, pick_results, adv, now, other_games, wk>>
    /\ out' = Sent(NoOut)

\* ... and re-check whether a bye is used elsewhere
SaveRecheckBye(s) ==
    /\ ui[s].pc = "bye_deleted"
    /\ ui' = [ui EXCEPT ![s].pc = "validate",
                        ![s].byeUsedThisSeason = ByeSeason(byes, UserOf(s))]
    /\ UNCHANGED <<current_week, games, weeks, picks, byes, pick_results, adv, now, other_games, wk>>
    /\ out' = Sent(NoOut)

\* the validation of the picks path; Null when it passes
Invalid(u) ==
    IF u.p1 = Empty THEN "Pick 1 is required."
    ELSE IF u.picks_required = 2 /\ u.p2 = Empty THEN "Pick 2 is required."
    ELSE IF u.picks_required = 2 /\ u.p1 = u.p2
         THEN "Pick 1 and Pick 2 must be different teams."
    ELSE Null

PickRow(w, user, slot, team) ==
    [week_number |-> w, user_id |-> user, slot |-> slot, team_abbr |-> team]

\* (mutant) slot 2 is written whatever the week requires
SaveRows_BothSlots(u, user) ==
    {PickRow(u.week, user, 1, u.p1), PickRow(u.week, user, 2, u.p2)}

\* rows: slot 1, and slot 2 when two picks are required
SaveRows(u, user) ==
    {PickRow(u.week, user, 1, u.p1)}
    \cup (IF u.picks_required = 2 THEN {PickRow(u.week, user, 2, u.p2)} ELSE {})

\* picks path, validation and the upsert
SaveUpsert(s, ok) ==
    /\ \/ SaveEnabled(ui[s]) /\ ~ui[s].wantsBye /\ ~ui[s].byeExistsThisWeek
       \/ ui[s].pc = "validate"
    /\ IF Invalid(ui[s]) # Null
       THEN /\ picks' = picks
            /\ ui' = [ui EXCEPT ![s] = Failed(@, Invalid(ui[s]))]
       ELSE IF ok
       THEN /\ picks' = UpsertPicks(picks, SaveRows(ui[s], UserOf(s)))
            /\ ui' = [ui EXCEPT ![s].pc = IF ui[s].picks_required = 1
                                          THEN "upserted" ELSE "refresh",
                                ![s].err = Null, ![s].msg = Null]
       ELSE /\ picks' = picks
            /\ ui' = [ui EXCEPT ![s] = Failed(@, "store error")]
    /\ UNCHANGED <<current_week, games, weeks, byes, pick_results, adv, now, other_games, wk>>
    /\ out' = Sent(NoOut)

\* 1-pick week: remove slot 2 if it exists (the result of the call is not looked at)
SaveDeleteSlot2(s, ok) ==
    /\ ui[s].pc = "upserted"
    /\ picks' = IF ok THEN DeleteSlot2(picks, ui[s].week, UserOf(s)) ELSE picks
    /\ ui' = [ui EXCEPT ![s].pc = "refresh"]
    /\ UNCHANGED <<current_week, games, weeks, byes, pick_results, adv, now, other_games, wk>>
    /\ out' = Sent(NoOut)

\* the page is left or reloaded: the effect's cleanup clears the interval
Close(s) ==
    /\ ui[s].pc = "ready"
    /\ ui' = [ui EXCEPT ![s] = UiClosed]
    /\ UNCHANGED <<current_week, games, weeks, picks, byes, pick_results, adv, now, other_games, wk>>
    /\ out' = Sent(NoOut)

\* refreshUsedTeams(), then "Saved."
SaveRefresh(s) ==
    /\ ui[s].pc \in {"refresh", "refresh_bye"}
    /\ ui' = [ui EXCEPT ![s].pc = "ready",
                        ![s].usedTeams = UsedTeams(picks, UserOf(s)),
                        ![s].msg = IF ui[s].pc = "refresh_bye"
                                   THEN "Saved (bye)." ELSE "Saved."]
    /\ UNCHANGED <<current_week, games, weeks, picks, byes, pick_results, adv, now, other_games, wk>>
    /\ out' = Sent(NoOut)

(***************************************************************************)
(* The week page.  load() reads the league, the Week Config, the roster    *)
(* and the week's picks; the page renders nothing while busy.  revealed is *)
(* memoised on weekCfg: it is computed once, when the config arrives.      *)
(* The picks read is taken to return every row of the week.                *)
(***************************************************************************)
Viewer == "u1"                      \* userId of useRequireAuth
Hidden == "Hidden until kickoff"

WkClosed ==
    [pc |-> "closed", week |-> 0, weekCfg |-> NoCfg, revealed |-> FALSE,
     computedAt |-> 0, roster |-> {}, picks |-> {}, busy |-> TRUE, err |-> Null,
     shown |-> {}]

\* revealed: Date.now() >= new Date(weekCfg.reveal_time).getTime()
revealed(weekCfg, t) == IF weekCfg = NoCfg THEN FALSE ELSE t >= weekCfg.reveal_time

\* picksByUser.get(m)?.[slot]
picked(w, m, slot) ==
    IF \E p \in w.picks : p.user_id = m /\ p.slot = slot
    THEN (CHOOSE p \in w.picks : p.user_id = m /\ p.slot = slot).team_abbr
    ELSE "No picks"

\* (mutant) every row shows its picks
rowShown_NoHide(w, m) ==
    IF w.weekCfg.picks_required = 1 THEN <<picked(w, m, 1)>>
    ELSE <<picked(w, m, 1), picked(w, m, 2)>>

\* one row of roster.map: the placeholder, or the picks of the required slots
rowShown(w, m) ==
    IF ~w.revealed /\ m # Viewer THEN <<Hidden>>
    ELSE IF w.weekCfg.picks_required = 1 THEN <<picked(w, m, 1)>>
    ELSE <<picked(w, m, 1), picked(w, m, 2)>>

\* the rows on screen: none while busy or without a week config
Rendered(w) ==
    IF w.busy \/ w.weekCfg = NoCfg THEN {}
    ELSE {[user_id |-> m, row |-> rowShown(w, m)] : m \in w.roster}

\* a read of load() failed: setErr, setBusy(false), return
WkFailed(w, message) ==
    LET f == [w EXCEPT !.pc = "shown", !.busy = FALSE, !.err = message]
    IN [f EXCEPT !.shown = Rendered(f)]

\* the page is opened for a week 1..18: load() starts
WkOpen(week) ==
    /\ wk.pc = "closed"
    /\ week \in 1..LastWeek
    /\ wk' = [WkClosed EXCEPT !.pc = "leagues", !.week = week]
    /\ UNCHANGED <<current_week, games, weeks, picks, byes, pick_results, adv, now, ui,
                   other_games>>
    /\ out' = Sent(NoOut)

\* 1) leagues
WkReadLeague(ok) ==
    /\ wk.pc = "leagues"
    /\ wk' = IF ok THEN [wk EXCEPT !.pc = "weeks"] ELSE WkFailed(wk, "store error")
    /\ UNCHANGED <<current_week, games, weeks, picks, byes, pick_results, adv, now, ui,
                   other_games>>
    /\ out' = Sent(NoOut)

\* 2) week config: setWeekCfg(wc); the next render computes revealed
WkReadWeek(ok) ==
    /\ wk.pc = "weeks"
    /\ wk' = IF ~ok THEN WkFailed(wk, "store error")
             ELSE IF weeks[wk.week] = NoCfg
             THEN WkFailed(wk, "Week config missing in DB (weeks table).")
             ELSE [wk EXCEPT !.pc = "roster", !.weekCfg = weeks[wk.week],
                             !.revealed = revealed(weeks[wk.week], now),
                             !.computedAt = now]
    /\ UNCHANGED <<current_week, games, weeks, picks, byes, pick_results, adv, now, ui,
                   other_games>>
    /\ out' = Sent(NoOut)

\* 3) roster
WkReadRoster(ok) ==
    /\ wk.pc = "roster"
    /\ wk' = IF ok THEN [wk EXCEPT !.pc = "picks", !.roster = {"u1", "u2"}]
             ELSE WkFailed(wk, "store error")
    /\ UNCHANGED <<current_week, games, weeks, picks, byes, pick_results, adv, now, ui,
                   other_games>>
    /\ out' = Sent(NoOut)

\* 4) picks of the week, then setBusy(false)
WkReadPicks(ok) ==
    /\ wk.pc = "picks"
    /\ wk' = IF ~ok THEN WkFailed(wk, "store error")
             ELSE LET f == [wk EXCEPT !.pc = "shown", !.busy = FALSE,
                                      !.picks = PicksOfWeek(picks, wk.week)]
                  IN [f EXCEPT !.shown = Rendered(f)]
    /\ UNCHANGED <<current_week, games, weeks, picks, byes, pick_results, adv, now, ui,
                   other_games>>
    /\ out' = Sent(NoOut)

\* the page is left
WkClose ==
    /\ wk.pc = "shown"
    /\ wk' = WkClosed
    /\ UNCHANGED <<current_week, games, weeks, picks, byes, pick_results, adv, now, ui,
                   other_games>>
    /\ out' = Sent(NoOut)

(***************************************************************************)
(* The pipeline: the four trigger routes, two Advance invocations in       *)
(* flight, no picks.  The league starts in its first modelled week with    *)
(* that week synced.                                                       *)
(***************************************************************************)
\* a stub row as the early sync-week left it: scheduled, no scores
StubRow(id, week_number) ==
    [game_id |-> id, week_number |-> week_number,
     home_abbr |-> HomeOf(id), away_abbr |-> AwayOf(id),
     kickoff_time |-> KickoffOf(id), status |-> "scheduled",
     home_score |-> NoScore, away_score |-> NoScore, winner_abbr |-> Null]

NoGames == [id \in GameIds |-> NoRow]
NoWeeks == [w \in SyncWeeks |-> NoCfg]

\* what the provider reports in the pipeline: one matchup a week
PipelineBoards(w) == Scoreboards([i \in {<<w, 1>>} |-> BasicEvents(i)])

InitPipelineGames ==
    {UpsertGames(UpsertGames(NoGames, RowsOf(b.events, FirstWeek)), stub) :
        b \in {x \in PipelineBoards(FirstWeek) :
                 RowsOf(x.events, FirstWeek) # {}},
        stub \in {{}, {StubRow(<<0, 1>>, FirstWeek)}}}

Init ==
    /\ current_week = FirstWeek
    /\ games \in InitPipelineGames
    /\ weeks = [NoWeeks EXCEPT ![FirstWeek] =
                  WeekCfg(FirstWeek, EarliestKickoff(GamesOfWeek(games, FirstWeek)))]
    /\ picks = {}
    /\ byes = {}
    /\ pick_results = {}
    /\ adv = [p \in Procs |-> AdvIdle]
    /\ now = 0
    /\ ui = [s \in Sessions |-> UiClosed]
    /\ other_games = {}
    /\ wk = WkClosed
    /\ out = Unobserved

Next ==
    \/ \E w \in Weeks : \E b \in PipelineBoards(w) : GameSync(w, b)
    \/ \E w \in Weeks, f \in BOOLEAN : WeekSync(w, f)
    \/ \E d \in 0..3 : Grade(d)
    \/ \E p \in Procs : AdvReadLeague(p)
    \/ \E p \in Procs : \E b \in PipelineBoards(adv[p].week + 1) :
          AdvReadGames(p, b)
    \/ \E p \in Procs : \E b \in PipelineBoards(adv[p].week + 1) :
          AdvSyncGames(p, b)
    \/ \E p \in Procs : AdvReadKickoff(p)
    \/ \E p \in Procs : AdvUpsertWeek(p)
    \/ \E p \in Procs : AdvUpdateLeague(p)
    \/ \E p \in Procs : AdvStoreError(p)

Spec == Init /\ [][Next]_vars

(***************************************************************************)
(* Claims on the pipeline                                                  *)
(***************************************************************************)

\* C1: whenever leagues.current_week is written, the writing Advance invocation
\* read at least one Game of week w and only final ones, got at least one
\* provider event for w+1, upserted at least one Game row and the Week Config
\* of w+1, in the order games, weeks, leagues, and writes w+1.
C1_AdvanceOnlyAfterSync ==
    [][current_week' # current_week =>
        \E p \in Procs :
            /\ adv[p].pc = "week" /\ adv'[p].pc = "idle"
            /\ adv[p].count > 0 /\ adv[p].statuses = {"final"}
            /\ adv[p].events > 0
            /\ adv[p].upserted > 0
            /\ adv[p].sw_ok
            /\ adv[p].writes = <<"games", "weeks">>
            /\ current_week' = adv[p].week + 1]_vars

\* the pointer has moved past the first week, into a synced week
C1_Witness ==
    /\ current_week = FirstWeek + 1
    /\ \E r \in GamesOfWeek(games, current_week) : r.status = "scheduled"

\* C2: the week leagues.current_week points to always has at least one Game
\* row and a Week Config row.
C2_PointerHasScheduleAndConfig ==
    /\ GamesOfWeek(games, current_week) # {}
    /\ weeks[current_week] # NoCfg

\* the pointer reached the last week, two advances after the start
C2_Witness ==
    /\ current_week = LastWeek
    /\ C2_PointerHasScheduleAndConfig
    /\ \E p \in Procs : adv[p].pc # "idle"

\* C4: no step lowers leagues.current_week.
C4_PointerNeverLowered == [][current_week' >= current_week]_vars

\* C5: leagues.current_week never exceeds 18.
C5_PointerAtMostLastWeek == current_week <= LastWeek

\* the league is in week 18 with all games final: only the week-18 guard holds it
C5_Witness ==
    /\ current_week = LastWeek
    /\ AdvAllFinal(GamesOfWeek(games, LastWeek))

(***************************************************************************)
(* Grading: one member picks on the picks page while Game Sync and Grade   *)
(* run on the league's week.  Another league of the season has its week    *)
(* synced; this league's week starts with any table an earlier sync can    *)
(* have left, its config written by Week Sync (fallback lock allowed).     *)
(***************************************************************************)
Member == "s1"
Cron == "a1"

\* not started / in progress / final with a home win / final and tied
GradeEvents(id) ==
    {Event(id, HomeOf(id), "pre", FALSE, NoScore, NoScore, KickoffOf(id)),
     Event(id, HomeOf(id), "in", FALSE, 1, 0, KickoffOf(id)),
     Event(id, HomeOf(id), "post", TRUE, 1, 0, KickoffOf(id)),
     Event(id, HomeOf(id), "post", TRUE, 1, 1, KickoffOf(id))}

GradeBoards(w) == Scoreboards([i \in {<<w, 1>>} |-> GradeEvents(i)])

InitGradeGames ==
    {UpsertGames(UpsertGames(NoGames, RowsOf(b.events, FirstWeek)), stub) :
        b \in {x \in GradeBoards(FirstWeek) : x.ok},
        stub \in {{}, {StubRow(<<0, 1>>, FirstWeek)}}}

\* the same matchup, synced by another league of the season
OtherLeagueRow(w) ==
    [week_number |-> w, home_abbr |-> HomeOf(<<w, 1>>), away_abbr |-> AwayOf(<<w, 1>>)]

InitGrade ==
    /\ current_week = FirstWeek
    /\ games \in InitGradeGames
    /\ weeks = [NoWeeks EXCEPT ![FirstWeek] =
                  WeekCfg(FirstWeek, LockIso(GamesOfWeek(games, FirstWeek), 0))]
    /\ picks = {}
    /\ byes = {}
    /\ pick_results = {}
    /\ adv = [p \in Procs |-> AdvIdle]
    /\ now = 0
    /\ ui = [s \in Sessions |-> UiClosed]
    /\ other_games = {OtherLeagueRow(FirstWeek)}
    /\ wk = WkClosed
    /\ out = Unobserved

NextGrade ==
    \/ \E b \in GradeBoards(current_week) : GameSync(current_week, b)
    \/ \E d \in 0..3 : Grade(d)
    \/ Load(Member)
    \/ Close(Member)
    \/ \E slot \in {1, 2}, t \in Teams \cup {Empty} : SetPick(Member, slot, t)
    \/ \E checked \in BOOLEAN : SetWantsBye(Member, checked)
    \/ \E ok \in BOOLEAN : SaveBye(Member, ok)
    \/ \E ok \in BOOLEAN : SaveByeDeletePicks(Member, ok)
    \/ \E ok \in BOOLEAN : SaveDeleteBye(Member, ok)
    \/ SaveRecheckBye(Member)
    \/ \E ok \in BOOLEAN : SaveUpsert(Member, ok)
    \/ SaveRefresh(Member)

SpecGrade == InitGrade /\ [][NextGrade]_vars

(***************************************************************************)
(* The season: the member picks, the cron route advances the league.       *)
(***************************************************************************)
\* what the provider reports in the season: the matchup not started, or final
SeasonEvents(id) ==
    {Event(id, HomeOf(id), "pre", FALSE, NoScore, NoScore, KickoffOf(id)),
     Event(id, HomeOf(id), "post", TRUE, 1, 0, KickoffOf(id))}

SeasonBoards(w) == Scoreboards([i \in {<<w, 1>>} |-> SeasonEvents(i)])

InitSeasonGames ==
    {UpsertGames(NoGames, RowsOf(b.events, FirstWeek)) :
        b \in {x \in SeasonBoards(FirstWeek) : RowsOf(x.events, FirstWeek) # {}}}

InitSeason ==
    /\ current_week = FirstWeek
    /\ games \in InitSeasonGames
    /\ weeks = [NoWeeks EXCEPT ![FirstWeek] =
                  WeekCfg(FirstWeek, EarliestKickoff(GamesOfWeek(games, FirstWeek)))]
    /\ picks = {}
    /\ byes = {}
    /\ pick_results = {}
    /\ adv = [p \in Procs |-> AdvIdle]
    /\ now = 0
    /\ ui = [s \in Sessions |-> UiClosed]
    /\ other_games = {}
    /\ wk = WkClosed
    /\ out = Unobserved

NextSeason ==
    \/ \E b \in SeasonBoards(current_week) : GameSync(current_week, b)
    \/ Grade(3)
    \/ Load(Member)
    \/ Close(Member)
    \/ \E slot \in {1, 2}, t \in Teams \cup {Empty} : SetPick(Member, slot, t)
    \/ \E ok \in BOOLEAN : SaveUpsert(Member, ok)
    \/ \E ok \in BOOLEAN : SaveDeleteSlot2(Member, ok)
    \/ SaveRefresh(Member)
    \/ AdvReadLeague(Cron)
    \/ \E b \in SeasonBoards(adv[Cron].week + 1) : AdvReadGames(Cron, b)
    \/ \E b \in SeasonBoards(adv[Cron].week + 1) : AdvSyncGames(Cron, b)
    \/ AdvReadKickoff(Cron)
    \/ AdvUpsertWeek(Cron)
    \/ AdvUpdateLeague(Cron)
    \/ AdvStoreError(Cron)

SpecSeason == InitSeason /\ [][NextSeason]_vars

(***************************************************************************)
(* Claims on grading                                                       *)
(***************************************************************************)
ResultsOfWeek(pr, w) == {r \in pr : r.week_number = w}
KeyOf(r) == <<r.week_number, r.user_id, r.slot, r.team_abbr>>

\* C3: when leagues.current_week changes from w, every Pick of week w already
\* has a Pick Result that is win or loss.
C3_GradedBeforeAdvance ==
    [][current_week' # current_week =>
        \A p \in PicksOfWeek(picks, current_week) :
            \E r \in pick_results :
                SameKey(r, p) /\ r.team_abbr = p.team_abbr
                /\ r.result \in {"win", "loss"}]_vars

\* C6: a grading pass, run in any state, leaves every pick of the week with a
\* result that is pending iff at least one game of the week is not final, and
\* otherwise win iff the picked team is among the winners of the week's
\* games, else loss.
C6_ResultRule ==
    LET rows == GamesOfWeek(UpdateGames(games, current_week, StubIds), current_week)
        notFinal == \E g \in rows : g.status # "final"
    IN \A p \in PicksOfWeek(picks, current_week) :
          \E r \in ResultsGraded(pick_results, games, picks, current_week) :
             LET won == \E g \in rows : g.winner_abbr # Null /\ g.winner_abbr = p.team_abbr
             IN /\ SameKey(r, p) /\ r.team_abbr = p.team_abbr
                /\ r.result = "pending" <=> notFinal
                /\ r.result = "win" <=> ~notFinal /\ won
                /\ r.result = "loss" <=> ~notFinal /\ ~won

\* a pass wrote a win and a loss, and an earlier one a pending result
C6_Witness ==
    /\ \E r \in pick_results : r.result = "win"
    /\ \E r \in pick_results : r.result = "loss"
    /\ \E g \in GamesOfWeek(games, current_week) : g.status # "final"

\* C7: a grading pass over a week without Game rows writes pending for every pick.
C7_NoGamesAllPending ==
    [][Grade(3) /\ GamesOfWeek(games', current_week) = {} =>
        \A r \in ResultsOfWeek(pick_results', current_week) : r.result = "pending"]_vars

\* C8: a grading pass, run in any state, leaves exactly one Pick Result per
\* Pick of the week; the result of a deleted pick is gone.
C8_FullReplace ==
    {KeyOf(r) : r \in ResultsOfWeek(ResultsGraded(pick_results, games, picks, current_week),
                                    current_week)}
        = {KeyOf(p) : p \in PicksOfWeek(picks, current_week)}

\* C9: a second grading pass right after a complete one changes neither the
\* games nor the pick results.
C9_GradeIdempotent ==
    [][Grade(3) =>
        /\ UpdateGames(games', current_week', StubIds) = games'
        /\ ResultsGraded(pick_results', games', picks', current_week') = pick_results']_vars

\* a pass has turned the stub game final and graded a pick on it
C9_Witness ==
    /\ games[<<0, 1>>] # NoRow /\ games[<<0, 1>>].home_score = 24
    /\ \E r \in pick_results : r.result = "win"

(***************************************************************************)
(* Pick Submission: the member on the picks page while time passes.  The   *)
(* week has two games not yet started; it locks at the first kickoff.      *)
(***************************************************************************)
InitSaveGames ==
    UpsertGames(NoGames, {StubRow(id, FirstWeek) : id \in EventIds(FirstWeek)})

InitSave ==
    /\ current_week = FirstWeek
    /\ games = InitSaveGames
    /\ weeks = [NoWeeks EXCEPT ![FirstWeek] =
                  WeekCfg(FirstWeek, EarliestKickoff(GamesOfWeek(games, FirstWeek)))]
    /\ picks = {}
    /\ byes = {}
    /\ pick_results = {}
    /\ adv = [p \in Procs |-> AdvIdle]
    /\ now = 0
    /\ ui = [s \in Sessions |-> UiClosed]
    /\ other_games = {}
    /\ wk = WkClosed
    /\ out = Unobserved

NextSave ==
    \/ AdvanceTime
    \/ Load(Member)
    \/ Close(Member)
    \/ Tick(Member)
    \/ \E slot \in {1, 2}, t \in Teams \cup {Empty} : SetPick(Member, slot, t)
    \/ \E checked \in BOOLEAN : SetWantsBye(Member, checked)
    \/ \E ok \in BOOLEAN : SaveBye(Member, ok)
    \/ \E ok \in BOOLEAN : SaveByeDeletePicks(Member, ok)
    \/ \E ok \in BOOLEAN : SaveDeleteBye(Member, ok)
    \/ SaveRecheckBye(Member)
    \/ \E ok \in BOOLEAN : SaveUpsert(Member, ok)
    \/ SaveRefresh(Member)

SpecSave == InitSave /\ [][NextSave]_vars

(***************************************************************************)
(* Claims on pick submission                                               *)
(***************************************************************************)

\* C10: a save started at or after the week's lock_time inserts, upserts or
\* deletes nothing in picks or byes.
C10_NoSaveAfterLock ==
    [][\A s \in Sessions :
        /\ ui[s].pc = "ready" /\ ui'[s] # ui[s]
        /\ now >= weeks[ui[s].week].lock_time
        => picks' = picks /\ byes' = byes]_vars

(***************************************************************************)
(* Two sessions of the member, open at the same time, while the cron       *)
(* route advances the league.  The league starts in a week whose only game *)
(* is final; the provider reports the weeks after it as not started.  No   *)
(* store call of a save fails and no page is reloaded.                     *)
(***************************************************************************)
SessionsEvents(id) ==
    {Event(id, HomeOf(id), "pre", FALSE, NoScore, NoScore, KickoffOf(id))}

SessionsBoards(w) == Scoreboards([i \in {<<w, 1>>} |-> SessionsEvents(i)])

InitSessionsGames ==
    UpsertGames(NoGames,
        RowsOf({Event(<<TwoByesWeek, 1>>, HomeOf(<<TwoByesWeek, 1>>), "post", TRUE, 1, 0,
                      KickoffOf(<<TwoByesWeek, 1>>))}, TwoByesWeek))

InitSessions ==
    /\ current_week = TwoByesWeek
    /\ games = InitSessionsGames
    /\ weeks = [NoWeeks EXCEPT ![TwoByesWeek] =
                  WeekCfg(TwoByesWeek, EarliestKickoff(GamesOfWeek(games, TwoByesWeek)))]
    /\ picks = {}
    /\ byes = {}
    /\ pick_results = {}
    /\ adv = [p \in Procs |-> AdvIdle]
    /\ now = 0
    /\ ui = [s \in Sessions |-> UiClosed]
    /\ other_games = {}
    /\ wk = WkClosed
    /\ out = Unobserved

NextSessions ==
    \/ \E s \in Sessions : Load(s)
    \/ \E s \in Sessions, slot \in {1, 2}, t \in Teams \cup {Empty} : SetPick(s, slot, t)
    \/ \E s \in Sessions, checked \in BOOLEAN : SetWantsBye(s, checked)
    \/ \E s \in Sessions : SaveBye(s, TRUE)
    \/ \E s \in Sessions : SaveByeDeletePicks(s, TRUE)
    \/ \E s \in Sessions : SaveDeleteBye(s, TRUE)
    \/ \E s \in Sessions : SaveRecheckBye(s)
    \/ \E s \in Sessions : SaveUpsert(s, TRUE)
    \/ \E s \in Sessions : SaveRefresh(s)
    \/ AdvReadLeague(Cron)
    \/ \E b \in SessionsBoards(adv[Cron].week + 1) : AdvReadGames(Cron, b)
    \/ \E b \in SessionsBoards(adv[Cron].week + 1) : AdvSyncGames(Cron, b)
    \/ AdvReadKickoff(Cron)
    \/ AdvUpsertWeek(Cron)
    \/ AdvUpdateLeague(Cron)
    \/ AdvStoreError(Cron)

SpecSessions == InitSessions /\ [][NextSessions]_vars

(***************************************************************************)
(* Claims on pick submission from two sessions                             *)
(***************************************************************************)
\* C11: when a save reports success and no other save is under way, the user
\* does not have both a Bye row and a Pick row for the saved week.
C11_ByeExcludesPicks ==
    [][\A s \in Sessions :
        /\ ui[s].pc \in {"refresh", "refresh_bye"} /\ ui'[s].pc = "ready"
        /\ \A t \in Sessions : ui'[t].pc \in {"ready", "closed"}
        => ~(ByeThisWeek(byes', ui[s].week, UserOf(s))
             /\ \E p \in picks' : p.week_number = ui[s].week /\ p.user_id = UserOf(s))]_vars

\* C12: every user has at most one Bye row in the season, and it is for a
\* week in 1..16.
C12_OneByePerSeason ==
    /\ \A r \in byes : r.week_number \in 1..ByeLastWeek
    /\ \A r1 \in byes : \A r2 \in byes : r1.user_id = r2.user_id => r1 = r2

\* C13: no two Pick rows of one user in different (week, slot) positions
\* carry the same team.
C13_NoTeamTwice ==
    \A p \in picks : \A q \in picks :
        p.user_id = q.user_id /\ p.team_abbr = q.team_abbr
        => p.week_number = q.week_number /\ p.slot = q.slot

(***************************************************************************)
(* The change from two picks a week to one: the member on the picks page   *)
(* in the last 2-pick week, whose games are final, and in the week         *)
(* after it, once the cron route has advanced the league.                  *)
(***************************************************************************)
\* both matchups of the week, final with a home win
InitSlotsGames ==
    UpsertGames(NoGames,
        RowsOf({Event(id, HomeOf(id), "post", TRUE, 1, 0, KickoffOf(id))
                  : id \in EventIds(ByeLastWeek)}, ByeLastWeek))

\* the provider reports the matchups of the next week as not started
SlotsBoards(w) == Scoreboards([i \in EventIds(w) |-> SessionsEvents(i)])

InitSlots ==
    /\ current_week = ByeLastWeek
    /\ games = InitSlotsGames
    /\ weeks = [NoWeeks EXCEPT ![ByeLastWeek] =
                  WeekCfg(ByeLastWeek, EarliestKickoff(GamesOfWeek(games, ByeLastWeek)))]
    /\ picks = {}
    /\ byes = {}
    /\ pick_results = {}
    /\ adv = [p \in Procs |-> AdvIdle]
    /\ now = 0
    /\ ui = [s \in Sessions |-> UiClosed]
    /\ other_games = {}
    /\ wk = WkClosed
    /\ out = Unobserved

NextSlots ==
    \/ Load(Member)
    \/ Close(Member)
    \/ \E slot \in {1, 2}, t \in Teams \cup {Empty} : SetPick(Member, slot, t)
    \/ \E checked \in BOOLEAN : SetWantsBye(Member, checked)
    \/ \E ok \in BOOLEAN : SaveBye(Member, ok)
    \/ \E ok \in BOOLEAN : SaveByeDeletePicks(Member, ok)
    \/ \E ok \in BOOLEAN : SaveDeleteBye(Member, ok)
    \/ SaveRecheckBye(Member)
    \/ \E ok \in BOOLEAN : SaveUpsert(Member, ok)
    \/ \E ok \in BOOLEAN : SaveDeleteSlot2(Member, ok)
    \/ SaveRefresh(Member)
    \/ AdvReadLeague(Cron)
    \/ \E b \in SlotsBoards(adv[Cron].week + 1) : AdvReadGames(Cron, b)
    \/ \E b \in SlotsBoards(adv[Cron].week + 1) : AdvSyncGames(Cron, b)
    \/ AdvReadKickoff(Cron)
    \/ AdvUpsertWeek(Cron)
    \/ AdvUpdateLeague(Cron)
    \/ AdvStoreError(Cron)

SpecSlots == InitSlots /\ [][NextSlots]_vars

(***************************************************************************)
(* Claims on one session's saves                                           *)
(***************************************************************************)
SavedRows(pk, w, user) == {p \in pk : p.week_number = w /\ p.user_id = user}

C15_InvalidSaveMutatesNothing ==
    [][\A s \in Sessions :
        /\ ui[s].pc = "ready" /\ ~ui[s].wantsBye /\ Invalid(ui[s]) # Null
        /\ ui'[s] # ui[s]
        => picks' = picks /\ byes' = byes]_vars

\* C16: a store call of save that returns an error ends the save with the
\* error shown and without a success message.
C16_StoreErrorAborts ==
    [][\A s \in Sessions :
        \/ SaveBye(s, FALSE) \/ SaveByeDeletePicks(s, FALSE) \/ SaveDeleteBye(s, FALSE)
        \/ SaveUpsert(s, FALSE) \/ SaveDeleteSlot2(s, FALSE)
        => ui'[s].pc = "ready" /\ ui'[s].err # Null /\ ui'[s].msg = Null]_vars

(***************************************************************************)
(* The trigger routes with their responses recorded: requests with any     *)
(* headers, one Advance invocation, the league in its first modelled week  *)
(* with or without games.                                                  *)
(***************************************************************************)
InitTriggers ==
    /\ current_week = FirstWeek
    /\ games \in InitPipelineGames \cup {NoGames}
    /\ weeks \in {[NoWeeks EXCEPT ![FirstWeek] =
                     WeekCfg(FirstWeek, LockIso(GamesOfWeek(games, FirstWeek), 0))]}
                 \cup (IF games = NoGames THEN {NoWeeks} ELSE {})
    /\ picks = {}
    /\ byes = {}
    /\ pick_results = {}
    /\ adv = [p \in Procs |-> AdvIdle]
    /\ now = 0
    /\ ui = [s \in Sessions |-> UiClosed]
    /\ other_games = {}
    /\ wk = WkClosed
    /\ out = NoOut

NextTriggers ==
    \/ \E req \in Requests : \E b \in PipelineBoards(current_week) :
          GameSyncRoute(req, current_week, b)
    \/ \E req \in Requests, f \in BOOLEAN : WeekSyncRoute(req, current_week, f)
    \/ \E req \in Requests, d \in 0..3 : GradeRoute(req, d)
    \/ \E req \in Requests : AdvanceRoute(req, Cron)
    \/ \E b \in PipelineBoards(adv[Cron].week + 1) : AdvReadGames(Cron, b)
    \/ \E b \in PipelineBoards(adv[Cron].week + 1) : AdvSyncGames(Cron, b)
    \/ AdvReadKickoff(Cron)
    \/ AdvUpsertWeek(Cron)
    \/ AdvUpdateLeague(Cron)
    \/ AdvStoreError(Cron)
    \/ AdvFetchThrows(Cron)

SpecTriggers == InitTriggers /\ [][NextTriggers]_vars

\* the store the triggers write
store == <<current_week, games, weeks, picks, byes, pick_results>>

\* C17: once Advance has found the week all final (current_week < 18), an
\* invocation that ends in the provider check, in Game Sync or in Week Sync --
\* a store error or a thrown fetch included -- answers ok: true, advanced: false
\* with a reason, never an error status.
C17_PreAdvanceFailureIsSoft ==
    [][\A p \in Procs :
        /\ \/ adv[p].pc = "league" /\ AdvAllFinal(GamesOfWeek(games, adv[p].week))
           \/ adv[p].pc \in {"checked", "games", "kickoff"}
        /\ adv'[p].pc = "idle"
        /\ ~(adv[p].pc = "league" /\ AdvStoreError(p))   \* the guard's own read
        => /\ out'.route = "advance-week"
           /\ out'.status = 200 /\ ~out'.advanced /\ out'.reason # Null]_vars

\* C18: with the week all final and zero provider events for w+1, Advance
\* answers ok: true, advanced: false with the missing-provider-data reason,
\* current_week stays w and neither a Game row nor a Week Config of w+1 is
\* written; every advanced: false answer leaves current_week unchanged.
C18_NoProviderDataNoAdvance ==
    [][\A p \in Procs :
        /\ \A b \in PipelineBoards(adv[p].week + 1) :
              /\ b.ok /\ b.events = {}
              /\ AdvAllFinal(GamesOfWeek(games, adv[p].week))
              /\ AdvReadGames(p, b)
              => /\ out' = Stalled(p, NoProviderGames, 1)
                 /\ adv'[p].pc = "idle"
                 /\ current_week' = adv[p].week
                 /\ GamesOfWeek(games', adv[p].week + 1) = GamesOfWeek(games, adv[p].week + 1)
                 /\ weeks' = weeks /\ games' = games
        /\ out'.route = "advance-week" /\ out'.proc = p /\ ~out'.advanced
           => current_week' = current_week]_vars

C18_Witness ==
    /\ out.route = "advance-week" /\ out.reason = NoProviderGames
    /\ current_week = FirstWeek
    /\ GamesOfWeek(games, FirstWeek + 1) = {}
    /\ weeks[FirstWeek + 1] = NoCfg

\* C19: when the guard fails (current_week >= 18, no Game rows of the week, or
\* a game that is not final) Advance answers ok: true, advanced: false, has
\* fetched nothing from the provider and has written nothing to games, weeks
\* or leagues.
C19_GuardFailsNoOp ==
    [][\A p \in Procs :
        LET rows == GamesOfWeek(games, adv[p].week)
            noop == /\ out'.route = "advance-week" /\ out'.status = 200
                    /\ ~out'.advanced /\ out'.reason # Null /\ out'.fetches = 0
                    /\ adv'[p] = AdvIdle
                    /\ store' = store
        IN /\ \A req \in Requests :
                 mustBeCron(req) /\ current_week >= LastWeek /\ AdvanceRoute(req, p) => noop
           /\ \A b \in PipelineBoards(adv[p].week + 1) :
                 /\ rows = {} \/ \E r \in rows : r.status # "final"
                 /\ AdvReadGames(p, b)
                 => noop]_vars

C19_Witness ==
    /\ out.route = "advance-week" /\ out.reason = "No games found for current week"
    /\ out.fetches = 0
    /\ GamesOfWeek(games, current_week) = {}

\* C20: a request to Game Sync, Week Sync, Grade or Advance that carries
\* neither the trusted-cron header nor the correct secret gets an authorization
\* error and changes nothing in the store.
C20_TriggersFailClosed ==
    [][\A req \in Requests :
        /\ ~mustBeCron(req)
        /\ \/ \E b \in PipelineBoards(current_week) : GameSyncRoute(req, current_week, b)
           \/ \E f \in BOOLEAN : WeekSyncRoute(req, current_week, f)
           \/ \E d \in 0..3 : GradeRoute(req, d)
           \/ \E p \in Procs : AdvanceRoute(req, p)
        => out'.status = 401 /\ store' = store /\ adv' = adv]_vars

(***************************************************************************)
(* Week configs: Game Sync and Week Sync on the league's week and the      *)
(* next one, one Advance invocation.  The provider may move a kickoff.     *)
(***************************************************************************)
\* the kickoff moved ahead of every scheduled one
EarlyKickoff == KickoffOf(<<0, 1>>) \div 2

\* a final game at its scheduled kickoff; the second matchup may have been
\* moved to the earlier one
ConfigEvents(id) ==
    {Event(id, HomeOf(id), "post", TRUE, 1, 0, k) :
        k \in {KickoffOf(id)} \cup (IF id[2] = 2 THEN {EarlyKickoff} ELSE {})}

ConfigBoards(w) == Scoreboards([i \in EventIds(w) |-> ConfigEvents(i)])

InitConfigGames ==
    {UpsertGames(NoGames, RowsOf(b.events, FirstWeek)) :
        b \in {x \in ConfigBoards(FirstWeek) : RowsOf(x.events, FirstWeek) # {}}}

InitConfig ==
    /\ current_week = FirstWeek
    /\ games \in InitConfigGames
    /\ weeks = [NoWeeks EXCEPT ![FirstWeek] =
                  WeekCfg(FirstWeek, EarliestKickoff(GamesOfWeek(games, FirstWeek)))]
    /\ picks = {}
    /\ byes = {}
    /\ pick_results = {}
    /\ adv = [p \in Procs |-> AdvIdle]
    /\ now = 0
    /\ ui = [s \in Sessions |-> UiClosed]
    /\ other_games = {}
    /\ wk = WkClosed
    /\ out = Unobserved

NextConfig ==
    \/ \E b \in ConfigBoards(current_week) : GameSync(current_week, b)
    \/ \E w \in {current_week, current_week + 1}, f \in BOOLEAN : WeekSync(w, f)
    \/ AdvReadLeague(Cron)
    \/ \E b \in ConfigBoards(adv[Cron].week + 1) : AdvReadGames(Cron, b)
    \/ \E b \in ConfigBoards(adv[Cron].week + 1) : AdvSyncGames(Cron, b)
    \/ AdvReadKickoff(Cron)
    \/ AdvUpsertWeek(Cron)
    \/ AdvUpdateLeague(Cron)
    \/ AdvStoreError(Cron)

SpecConfig == InitConfig /\ [][NextConfig]_vars

\* C21: a Week Sync that found at least one Game row of the week stores
\* lock_time = reveal_time = the earliest kickoff_time of the week's rows it
\* read, in the standalone route and in Advance's inline Week Sync.
C21_LockIsEarliestKickoff ==
    [][/\ \A w \in SyncWeeks, f \in BOOLEAN :
            GamesOfWeek(games, w) # {} /\ WeekSync(w, f)
            => /\ weeks'[w].lock_time = Min({r.kickoff_time : r \in GamesOfWeek(games, w)})
               /\ weeks'[w].reveal_time = weeks'[w].lock_time
       /\ \A p \in Procs :
            /\ AdvReadKickoff(p) /\ GamesOfWeek(games, adv[p].week + 1) # {}
               => adv'[p].lockIso =
                    Min({r.kickoff_time : r \in GamesOfWeek(games, adv[p].week + 1)})
            /\ AdvUpsertWeek(p)
               => /\ weeks'[adv[p].week + 1].lock_time = adv[p].lockIso
                  /\ weeks'[adv[p].week + 1].reveal_time = adv[p].lockIso]_vars

\* the inline sync locked the next week at the moved kickoff of its second game
C21_Witness ==
    /\ current_week = FirstWeek + 1
    /\ Cardinality(GamesOfWeek(games, current_week)) = 2
    /\ weeks[current_week].lock_time = EarlyKickoff
    /\ weeks[current_week].reveal_time = EarlyKickoff

\* C23: picks_required is 1 for week_number >= 17 and 2 for week_number <= 16,
\* for every week 1..18 and in every stored Week Config.
C23_PicksRequiredByWeek ==
    /\ \A w \in 1..LastWeek :
          WeekCfg(w, 0).picks_required = (IF w >= 17 THEN 1 ELSE 2)
    /\ \A w \in SyncWeeks \cap (1..LastWeek) :
          weeks[w] # NoCfg => weeks[w].picks_required = (IF w >= 17 THEN 1 ELSE 2)

C23_Witness ==
    /\ weeks[SingleFrom - 1] # NoCfg /\ weeks[SingleFrom - 1].picks_required = 2
    /\ weeks[SingleFrom] # NoCfg /\ weeks[SingleFrom].picks_required = 1
    /\ weeks[LastWeek] # NoCfg /\ weeks[LastWeek].picks_required = 1

\* C28: every stored Week Config of a week that has Game rows has lock_time
\* equal to the earliest kickoff_time of the rows stored now, also after a
\* later Game Sync of the week moved a kickoff or added an earlier game.
C28_LockTracksGames ==
    \A w \in SyncWeeks :
        weeks[w] # NoCfg /\ GamesOfWeek(games, w) # {}
        => weeks[w].lock_time = Min({r.kickoff_time : r \in GamesOfWeek(games, w)})

\* C22: a Week Sync for a week with no Game rows and without the fallback flag
\* answers with its own not-ready status and leaves every Week Config as it
\* was; a Week Config whose lock_time is no kickoff of the week's games is
\* written only by a Week Sync request that carried the fallback flag.
C22_RefusesWithoutGames ==
    [][\A w \in SyncWeeks :
        /\ \A req \in Requests :
              /\ mustBeCron(req) /\ GamesOfWeek(games, w) = {}
              /\ WeekSyncRoute(req, w, FALSE)
              => /\ weeks' = weeks
                 /\ out'.route = "sync-week"
                 /\ out'.status = 409
        /\ /\ weeks'[w] # weeks[w]
           /\ weeks'[w].lock_time \notin {r.kickoff_time : r \in GamesOfWeek(games, w)}
           => \E req \in Requests :
                 /\ mustBeCron(req)
                 /\ WeekSyncRoute(req, w, TRUE)
                 /\ ~WeekSyncRoute(req, w, FALSE)]_vars

\* the refusal was sent for a week that has neither games nor a config
C22_Witness ==
    /\ out.route = "sync-week" /\ out.status = 409
    /\ GamesOfWeek(games, current_week) = {}
    /\ weeks[current_week] = NoCfg

\* C24: Game Sync stores no winner for a completed game with equal scores, and
\* a grading pass that finds all games of the week final gives "loss" to a
\* pick on either team of a tied game (the team's one game of the week).
C24_TieIsNeverAWin ==
    LET \* a final game with equal scores
        Tied(r) == r.status = "final" /\ r.home_score # NoScore /\ r.home_score = r.away_score
        \* the only game of team t among rows is r
        OnlyGameOf(t, r, rows) ==
            /\ t \in {r.home_abbr, r.away_abbr}
            /\ \A x \in rows : x # r => t \notin {x.home_abbr, x.away_abbr}
    IN
    /\ \A id \in GameIds : \A ev \in GradeEvents(id) :
          ev.completed /\ ev.home_score = ev.away_score
          => RowOf(ev, id[1]).winner_abbr = Null
    /\ \A id \in GameIds : games[id] # NoRow /\ Tied(games[id]) => games[id].winner_abbr = Null
    /\ LET rows == GamesOfWeek(GamesGraded(games, current_week), current_week)
       IN \A p \in PicksOfWeek(picks, current_week) :
            /\ GradeAllFinal(rows)
            /\ \E r \in rows : Tied(r) /\ OnlyGameOf(p.team_abbr, r, rows)
            => \A n \in ResultsGraded(pick_results, games, picks, current_week) :
                  SameKey(n, p) => n.result = "loss"

\* the tied game was graded: both picks on its teams are losses
C24_Witness ==
    /\ \E id \in EventIds(current_week) :
          /\ games[id] # NoRow /\ games[id].status = "final"
          /\ games[id].home_score # NoScore /\ games[id].home_score = games[id].away_score
    /\ \E n \in pick_results : n.team_abbr = "KC" /\ n.result = "loss"
    /\ \E n \in pick_results : n.team_abbr = "SF" /\ n.result = "loss"
    /\ GradeAllFinal(GamesOfWeek(games, current_week))

(***************************************************************************)
(* Game Sync on every answer of the provider: each state, either value of  *)
(* the completed flag, each score absent, lower, equal or higher.          *)
(***************************************************************************)
AnyEvents(id) ==
    {Event(id, HomeOf(id), state, completed, hs, as, KickoffOf(id)) :
        state \in {"pre", "in", "post"}, completed \in BOOLEAN,
        hs \in {NoScore, 0, 1}, as \in {NoScore, 0, 1}}

AnyBoards(w) == Scoreboards([i \in {<<w, 1>>} |-> AnyEvents(i)])

InitWinner ==
    /\ current_week = FirstWeek
    /\ games = NoGames
    /\ weeks = NoWeeks
    /\ picks = {}
    /\ byes = {}
    /\ pick_results = {}
    /\ adv = [p \in Procs |-> AdvIdle]
    /\ now = 0
    /\ ui = [s \in Sessions |-> UiClosed]
    /\ other_games = {}
    /\ wk = WkClosed
    /\ out = Unobserved

NextWinner ==
    \E w \in {current_week, current_week + 1} : \E b \in AnyBoards(w) : GameSync(w, b)

SpecWinner == InitWinner /\ [][NextWinner]_vars

\* C25: every Game row written by Game Sync has a winner_abbr only if its
\* status is final and both scores are present and differ, and the winner is
\* then the team with the higher score.
C25_WinnerOnlyWhenFinal ==
    \A id \in GameIds :
        games[id] # NoRow /\ games[id].winner_abbr # Null
        => /\ games[id].status = "final"
           /\ games[id].home_score # NoScore /\ games[id].away_score # NoScore
           /\ games[id].home_score # games[id].away_score
           /\ games[id].winner_abbr =
                (IF games[id].home_score > games[id].away_score
                 THEN games[id].home_abbr ELSE games[id].away_abbr)

(***************************************************************************)
(* Two sessions of the member submit picks for the same two-pick week; no  *)
(* trigger runs.  A save's store calls interleave with the other session's.*)
(***************************************************************************)
InitRace ==
    /\ current_week = ByeLastWeek
    \* the week's first matchup, not started
    /\ games = UpsertGames(NoGames, RowsOf(SessionsEvents(<<ByeLastWeek, 1>>), ByeLastWeek))
    /\ weeks = [NoWeeks EXCEPT ![ByeLastWeek] =
                  WeekCfg(ByeLastWeek, EarliestKickoff(GamesOfWeek(games, ByeLastWeek)))]
    /\ picks = {}
    /\ byes = {}
    /\ pick_results = {}
    /\ adv = [p \in Procs |-> AdvIdle]
    /\ now = 0
    /\ ui = [s \in Sessions |-> UiClosed]
    /\ other_games = {}
    /\ wk = WkClosed
    /\ out = Unobserved

NextRace ==
    \/ \E s \in Sessions : Load(s)
    \/ \E s \in Sessions, slot \in {1, 2}, t \in Teams \cup {Empty} : SetPick(s, slot, t)
    \/ \E s \in Sessions, ok \in BOOLEAN : SaveUpsert(s, ok)
    \/ \E s \in Sessions : SaveRefresh(s)

SpecRace == InitRace /\ [][NextRace]_vars

\* C26: the store never holds two Pick rows of one (week, user, slot), and a
\* picks-path submission leaves in every slot the team it wrote itself or the
\* team that was stored before it: per slot, the last writer's value stands.
C26_LastWriterWinsPerSlot ==
    [][/\ \A p \in picks' : \A q \in picks' : SameKey(p, q) => p = q
       /\ picks' # picks
          => \E s \in Sessions :
                /\ SaveUpsert(s, TRUE)
                /\ SaveRows(ui[s], UserOf(s)) \subseteq picks'
                /\ \A q \in picks' : q \in SaveRows(ui[s], UserOf(s)) \/ q \in picks]_vars

\* both submissions have completed; the stored rows are the second session's
\* and differ from what the first session wrote
C26_Witness ==
    /\ \A s \in Sessions : ui[s].pc = "ready" /\ ui[s].msg = "Saved."
    /\ ui["s1"].week = ui["s2"].week
    /\ ui["s1"].p1 # ui["s2"].p1 /\ ui["s1"].p2 # ui["s2"].p2
    /\ SavedRows(picks, ui["s2"].week, UserOf("s2")) = SaveRows(ui["s2"], UserOf("s2"))

\* C27: an Advance invocation that read current_week = w writes w+1 whatever
\* the stored value is by then, so invocations that all read w leave w+1: the
\* write of the second one changes nothing.
C27_NoDoubleAdvance ==
    [][\A p \in Procs :
        AdvUpdateLeague(p)
        => /\ current_week' = adv[p].week + 1
           /\ current_week = adv[p].week + 1 => current_week' = current_week
           /\ \A q \in Procs :
                 adv[q].pc # "idle" /\ adv[q].week = adv[p].week
                 => current_week' = adv[q].week + 1]_vars

\* one invocation that read the first week has written; the other one, which
\* read the same week, is about to write
C27_Witness ==
    \E p \in Procs, q \in Procs :
        /\ p # q
        /\ adv[p].pc = "week" /\ adv[p].week = FirstWeek
        /\ adv[q].pc = "idle"
        /\ current_week = FirstWeek + 1

(***************************************************************************)
(* The week page of the viewer while time passes and Game Sync and Week    *)
(* Sync run on the week; both roster members have picks of the week.       *)
(***************************************************************************)
InitWeekPage ==
    /\ current_week = FirstWeek
    /\ games \in InitConfigGames
    /\ weeks = [NoWeeks EXCEPT ![FirstWeek] =
                  WeekCfg(FirstWeek, EarliestKickoff(GamesOfWeek(games, FirstWeek)))]
    /\ picks = {PickRow(FirstWeek, "u1", 1, "KC"), PickRow(FirstWeek, "u2", 1, "SF"),
                PickRow(FirstWeek, "u2", 2, "DAL")}
    /\ byes = {}
    /\ pick_results = {}
    /\ adv = [p \in Procs |-> AdvIdle]
    /\ now = 0
    /\ ui = [s \in Sessions |-> UiClosed]
    /\ other_games = {}
    /\ wk = WkClosed
    /\ out = Unobserved

NextWeekPage ==
    \/ AdvanceTime
    \/ \E b \in ConfigBoards(current_week) : GameSync(current_week, b)
    \/ WeekSync(current_week, FALSE)
    \/ \E w \in {current_week, current_week + 1} : WkOpen(w)
    \/ \E ok \in BOOLEAN : WkReadLeague(ok)
    \/ \E ok \in BOOLEAN : WkReadWeek(ok)
    \/ \E ok \in BOOLEAN : WkReadRoster(ok)
    \/ \E ok \in BOOLEAN : WkReadPicks(ok)
    \/ WkClose

SpecWeekPage == InitWeekPage /\ [][NextWeekPage]_vars

\* C30: while revealed is false every row of a roster member other than the
\* viewer shows the hidden placeholder only, and revealed is true only if the
\* clock was at or after the config's reveal_time when it was computed.
C30_HiddenUntilReveal ==
    /\ \A r \in wk.shown :
          r.user_id # Viewer /\ ~wk.revealed => r.row = <<Hidden>>
    /\ \A r \in wk.shown :
          r.user_id # Viewer /\ wk.computedAt < wk.weekCfg.reveal_time => r.row = <<Hidden>>
    /\ wk.revealed => wk.weekCfg # NoCfg /\ wk.computedAt >= wk.weekCfg.reveal_time

\* the page holds the other member's picks and shows the placeholder for them
C30_Witness ==
    /\ wk.pc = "shown" /\ ~wk.revealed
    /\ \E p \in wk.picks : p.user_id = "u2"
    /\ [user_id |-> "u2", row |-> <<Hidden>>] \in wk.shown
    /\ [user_id |-> Viewer, row |-> <<"KC", "No picks">>] \in wk.shown

(***************************************************************************)
(* Retry: the cron trigger invokes Advance again and again.  The league    *)
(* starts in a week whose game is final; any step of an invocation may     *)
(* fail.  The periodic trigger and the running handler are weakly fair.    *)
(***************************************************************************)
InitRetry ==
    /\ current_week = FirstWeek
    /\ games \in {g \in InitPipelineGames :
                    \E r \in GamesOfWeek(g, FirstWeek) :
                       r.game_id = <<FirstWeek, 1>> /\ r.status = "final"}
    /\ weeks = [NoWeeks EXCEPT ![FirstWeek] =
                  WeekCfg(FirstWeek, EarliestKickoff(GamesOfWeek(games, FirstWeek)))]
    /\ picks = {}
    /\ byes = {}
    /\ pick_results = {}
    /\ adv = [p \in Procs |-> AdvIdle]
    /\ now = 0
    /\ ui = [s \in Sessions |-> UiClosed]
    /\ other_games = {}
    /\ wk = WkClosed
    /\ out = NoOut

\* one step of an Advance invocation, or the trigger starting one
AdvStep(p) ==
    \/ AdvReadLeague(p)
    \/ \E b \in PipelineBoards(adv[p].week + 1) : AdvReadGames(p, b)
    \/ \E b \in PipelineBoards(adv[p].week + 1) : AdvSyncGames(p, b)
    \/ AdvReadKickoff(p)
    \/ AdvUpsertWeek(p)
    \/ AdvUpdateLeague(p)
    \/ AdvStoreError(p)
    \/ AdvFetchThrows(p)

NextRetry ==
    \/ AdvStep(Cron)
    \/ \E d \in 0..3 : Grade(d)

SpecRetry == InitRetry /\ [][NextRetry]_vars /\ WF_vars(AdvStep(Cron))

\* C29: if from some point on no store call fails and the provider answers
\* with a well-formed event for the next week, then a league whose week
\* w < 18 is all final gets current_week = w+1 by the periodic Advance alone,
\* whatever failed before.
C29_RetryRecovers ==
    <>[][~(\/ AdvStoreError(Cron)
           \/ AdvFetchThrows(Cron)
           \/ \E b \in PipelineBoards(adv[Cron].week + 1) :
                 /\ AdvAllFinal(GamesOfWeek(games, adv[Cron].week))
                 /\ ~ProviderHasGames(b)
                 /\ AdvReadGames(Cron, b)
           \/ \E b \in PipelineBoards(adv[Cron].week + 1) :
                 ~SyncGamesOk(b, adv[Cron].week + 1) /\ AdvSyncGames(Cron, b))]_vars
    => \A w \in FirstWeek..(LastWeek - 1) :
          (current_week = w /\ AdvAllFinal(GamesOfWeek(games, w))) ~> (current_week = w + 1)

\* the league has advanced, and the last answer says so
C29_Witness ==
    /\ current_week = FirstWeek + 1
    /\ out.route = "advance-week" /\ out.advanced
    /\ weeks[FirstWeek + 1] # NoCfg

====
